---- MODULE Spec2Model ----
\* Model of the GCS tool catalog served by src/main.py (the decorated catalog,
\* 15 tools) and src/gcs_mcp_server/main.py (the plain catalog, 13 tools).
\*
\* A tool invocation is one atomic step: it makes its backend calls in program
\* order, and the first exception raised inside the try block is dispatched to
\* the tool's except clauses in source order.  The storage backend is the
\* google.cloud.storage client: its state is the set of buckets, the objects
\* they hold and the buckets' attributes; any backend call may also fail with
\* an exception the backend state does not explain (permission, transport).
\*
\* A result text is a sequence of tokens: the literal pieces of the f-string
\* ("lit"), the substituted arguments ("arg") and the rendered exception
\* ("detail").  Emoji of the source literals are written as ASCII tags:
\*   (ok) check mark, (!) warning sign, (x) cross mark, (bin) wastebasket,
\*   (up) outbox, (down) inbox, (link) link, (pen) pencil, (box) package,
\*   (web) globe, -> arrow.
EXTENDS Naturals, Sequences, FiniteSets

VARIABLES
  buckets,   \* the backend's buckets: name -> [location, cors]
  objects,   \* the backend's objects: pairs <<bucket name, object name>>
  last,      \* the invocation whose result is being returned: tool, arguments,
             \* backend calls made, exception caught, result; Idle between
             \* invocations
  pre,       \* the backend as it was when that invocation began
  inflight   \* the rename_blob or copy_blob that blob.exists() answered True
             \* and that has not made its next call yet

vars == <<buckets, objects, last, pre, inflight>>

-----------------------------------------------------------------------------
\* Bounds

NumBlobs == 2

\* two buckets: a source and a destination
BucketNameSeq == <<"b1", "b2">>
BlobNameSeq == <<"o1", "o2", "o3", "o4">>
BucketNames == {BucketNameSeq[i] : i \in DOMAIN BucketNameSeq}
BlobNames == {BlobNameSeq[i] : i \in 1..NumBlobs}
\* "US" is create_bucket's default location
Locations == {"US", "EU"}
\* paths on the server's disk: the first names a file that exists
LocalFiles == {"present.txt", "missing.txt"}
LocalPresent == {"present.txt"}
DestFiles == {"out.bin"}
ExpirationMinutes == {"15"}
CorsRules == {"rules"}
GreetNames == {"Ada"}
\* what the backend reports as an entity's timestamps
Stamps == {"none", "t1"}
\* "main" is src/main.py, "pkg" is src/gcs_mcp_server/main.py
Variants == {"main", "pkg"}

-----------------------------------------------------------------------------
\* Result texts

Lit(s) == [k |-> "lit", s |-> s]
Arg(a) == [k |-> "arg", s |-> a]
Hole == [k |-> "detail", s |-> "{e}"]

\* str(e) substituted for the {e} of a handler's f-string
Fill(tpl, e) ==
  [i \in DOMAIN tpl |-> IF tpl[i] = Hole THEN [k |-> "detail", s |-> e.msg] ELSE tpl[i]]

-----------------------------------------------------------------------------
\* Exceptions

ExcTypes == {"NotFound", "Conflict", "Forbidden", "FileNotFoundError", "Other"}

Exc(t) ==
  [type |-> t,
   msg |-> CASE t = "NotFound" -> "404 not found"
             [] t = "Conflict" -> "409 conflict"
             [] t = "Forbidden" -> "403 forbidden"
             [] t = "FileNotFoundError" -> "[Errno 2] No such file or directory"
             [] OTHER -> "500 backend error"]

\* isinstance(e, cls) for the classes the except clauses name
IsInstance(e, cls) == cls = "Exception" \/ e.type = cls

-----------------------------------------------------------------------------
\* Result values

Str(t) == [shape |-> "str", val |-> t]
StrList(ts) == [shape |-> "list", val |-> ts]
Map(m) == [shape |-> "map", val |-> m]
Raised(e) == [shape |-> "raised", val |-> <<[k |-> "detail", s |-> e.msg]>>]

ErrorMap(t) == Map([key \in {"error"} |-> t])

\* The except clauses of a try block, tried in source order: the first clause
\* whose class the exception is an instance of returns its value; with no such
\* clause the exception leaves the function.
RECURSIVE Dispatch(_, _)
Dispatch(clauses, e) ==
  IF clauses = <<>> THEN Raised(e)
  ELSE IF IsInstance(e, Head(clauses).catch)
       THEN [shape |-> Head(clauses).ret.shape,
             val |-> IF Head(clauses).ret.shape = "str" THEN Fill(Head(clauses).ret.val, e)
                     ELSE IF Head(clauses).ret.shape = "list"
                          THEN [i \in DOMAIN Head(clauses).ret.val |->
                                  Fill(Head(clauses).ret.val[i], e)]
                          ELSE [key \in DOMAIN Head(clauses).ret.val |->
                                  Fill(Head(clauses).ret.val[key], e)]]
       ELSE Dispatch(Tail(clauses), e)

Clause(cls, r) == [catch |-> cls, ret |-> r]

-----------------------------------------------------------------------------
\* The storage backend (google.cloud.storage), one operator per client call.
\* be is [buckets, objects]; a call answers [exc, ret, be]: the class of the
\* exception it raises ("none" when it returns), its return value, and the
\* backend it leaves.

Returns(r, be) == [exc |-> "none", ret |-> r, be |-> be]
Raises(t, be) == [exc |-> t, ret |-> "none", be |-> be]

\* what any request to the backend can fail with: the resource is gone, the
\* caller lacks the permission, or anything else (transport, server error)
BackendErrors == {"NotFound", "Forbidden", "Other"}

NoFault == [at |-> 0, type |-> "none"]
Faults(n, types) == {NoFault} \cup {[at |-> i, type |-> t] : i \in 1..n, t \in types}

\* the i-th backend call of an invocation: the injected fault when it is aimed
\* at this call, otherwise what the backend state gives
Call(i, inj, normal, be) == IF inj.at = i THEN Raises(inj.type, be) ELSE normal

Exists(be, b, o) == b \in DOMAIN be.buckets /\ <<b, o>> \in be.objects

NewBucket(location) == [location |-> location, cors |-> "none"]

sdk_list_buckets(be) == Returns(DOMAIN be.buckets, be)

sdk_create_bucket(be, b, location) ==
  IF b \in DOMAIN be.buckets THEN Raises("Conflict", be)
  ELSE Returns("bucket",
               [be EXCEPT !.buckets = [x \in DOMAIN be.buckets \cup {b} |->
                                         IF x = b THEN NewBucket(location)
                                         ELSE be.buckets[x]]])

\* force=True: the bucket's objects are deleted with it
sdk_bucket_delete(be, b) ==
  IF b \notin DOMAIN be.buckets THEN Raises("NotFound", be)
  ELSE Returns("none",
               [buckets |-> [x \in DOMAIN be.buckets \ {b} |-> be.buckets[x]],
                objects |-> {p \in be.objects : p[1] # b}])

sdk_list_blobs(be, b) ==
  IF b \notin DOMAIN be.buckets THEN Raises("NotFound", be)
  ELSE Returns({p[2] : p \in {q \in be.objects : q[1] = b}}, be)

\* the local file is opened before the request is sent
sdk_upload_from_filename(be, b, o, file) ==
  IF file \notin LocalPresent THEN Raises("FileNotFoundError", be)
  ELSE IF b \notin DOMAIN be.buckets THEN Raises("NotFound", be)
  ELSE Returns("none", [be EXCEPT !.objects = @ \cup {<<b, o>>}])

sdk_download_to_filename(be, b, o, file) ==
  IF ~Exists(be, b, o) THEN Raises("NotFound", be) ELSE Returns("none", be)

sdk_blob_delete(be, b, o) ==
  IF ~Exists(be, b, o) THEN Raises("NotFound", be)
  ELSE Returns("none", [be EXCEPT !.objects = @ \ {<<b, o>>}])

sdk_get_bucket(be, b) ==
  IF b \notin DOMAIN be.buckets THEN Raises("NotFound", be)
  ELSE Returns(be.buckets[b], be)

\* get_blob answers None for an object it does not find
sdk_get_blob(be, b, o) == Returns(Exists(be, b, o), be)

\* exists answers False for an object it does not find
sdk_blob_exists(be, b, o) == Returns(Exists(be, b, o), be)

sdk_generate_signed_url(be, b, o) == Returns("url", be)

\* a copy to the new name, then a delete of the old one when the names differ
sdk_rename_blob(be, b, o, new_name) ==
  IF ~Exists(be, b, o) THEN Raises("NotFound", be)
  ELSE Returns(new_name, [be EXCEPT !.objects = (@ \ {<<b, o>>}) \cup {<<b, new_name>>}])

sdk_copy_blob(be, b, o, db, do) ==
  IF ~Exists(be, b, o) \/ db \notin DOMAIN be.buckets THEN Raises("NotFound", be)
  ELSE Returns("blob", [be EXCEPT !.objects = @ \cup {<<db, do>>}])

sdk_bucket_patch(be, b, rules) ==
  IF b \notin DOMAIN be.buckets THEN Raises("NotFound", be)
  ELSE Returns("none", [be EXCEPT !.buckets[b].cors = rules])

\* One entry of an invocation's record of backend calls
Made(call, kind, target, r) ==
  [call |-> call, kind |-> kind, target |-> target,
   out |-> IF r.exc # "none" THEN r.exc ELSE "ok"]

MadeBool(call, kind, target, r) ==
  [call |-> call, kind |-> kind, target |-> target,
   out |-> IF r.exc # "none" THEN r.exc ELSE IF r.ret THEN "True" ELSE "False"]

-----------------------------------------------------------------------------
\* The try statement of a tool

\* storage.Client() raising (no credentials, no project): src/main.py builds
\* the client inside each tool's try block, the package builds it on import
ClientFault == [at |-> 0, type |-> "Other"]

FaultsOf(v, n, types) == Faults(n, types) \cup (IF v = "main" THEN {ClientFault} ELSE {})

Failed(t, calls, be) == [exc |-> t, calls |-> calls, be |-> be, value |-> Str(<<>>)]
Done(value, calls, be) == [exc |-> "none", calls |-> calls, be |-> be, value |-> value]

Client(v, inj, be, rest) ==
  IF v = "main" /\ inj = ClientFault THEN Failed("Other", <<>>, be) ELSE rest

\* a try block with one backend call
OneCall(made, c, value) ==
  IF c.exc # "none" THEN Failed(c.exc, <<made>>, c.be) ELSE Done(value, <<made>>, c.be)

Try(clauses, out) ==
  [result |-> IF out.exc = "none" THEN out.value ELSE Dispatch(clauses, Exc(out.exc)),
   exc |-> out.exc,
   calls |-> out.calls,
   be |-> out.be]

\* [x.name for x in ...]: the names the backend lists, in its (name) order
RECURSIVE NameList(_, _)
NameList(order, S) ==
  IF order = <<>> THEN <<>>
  ELSE (IF Head(order) \in S THEN <<<<Arg(Head(order))>>>> ELSE <<>>) \o NameList(Tail(order), S)

Unexpected(v) ==
  IF v = "main" THEN <<Lit("(x) Unexpected error: "), Hole>>
  ELSE <<Lit("An unexpected error occurred: "), Hole>>

-----------------------------------------------------------------------------
\* The tools

greet_run(v, name) ==
  Str(<<Lit("Hello "), Arg(name),
        Lit("! It's a pleasure to connect from your enhanced MCP Server.")>>)

list_gcs_buckets_except(v) ==
  << Clause("Forbidden",
            StrList(<< <<Lit("Error: Permission denied to list buckets. Details: "), Hole>> >>)),
     Clause("Exception", StrList(<< <<Lit("An unexpected error occurred: "), Hole>> >>)) >>

list_gcs_buckets_run(v, be, inj) ==
  LET c == Call(1, inj, sdk_list_buckets(be), be)
  IN Try(list_gcs_buckets_except(v),
         Client(v, inj, be,
                OneCall(Made("list_buckets", "read", <<>>, c), c,
                        StrList(NameList(BucketNameSeq, c.ret)))))

\* create_bucket answering a name that is taken as if it had created the bucket
create_bucket_except_idempotent(v, bucket_name, location) ==
  << Clause("Conflict",
            Str(<<Lit(IF v = "main" THEN "(ok) Bucket '" ELSE "Bucket '"), Arg(bucket_name),
                  Lit(IF v = "main" THEN "' created successfully in '"
                      ELSE "' created successfully in location '"),
                  Arg(location), Lit("'.")>>)),
     Clause("Exception", Str(Unexpected(v))) >>

create_bucket_except(v, bucket_name, location) ==
  IF v = "main"
  THEN << Clause("Conflict", Str(<<Lit("(!) Error: Bucket '"), Arg(bucket_name),
                                   Lit("' already exists.")>>)),
          Clause("Forbidden", Str(<<Lit("(x) Error: Permission denied to create bucket. Details: "),
                                    Hole>>)),
          Clause("Exception", Str(Unexpected(v))) >>
  ELSE << Clause("Conflict", Str(<<Lit("Error: Bucket '"), Arg(bucket_name),
                                   Lit("' already exists.")>>)),
          Clause("Forbidden", Str(<<Lit("Error: Permission denied to create bucket. Details: "),
                                    Hole>>)),
          Clause("Exception", Str(Unexpected(v))) >>

create_bucket_ok(v, bucket_name, location) ==
  IF v = "main"
  THEN Str(<<Lit("(ok) Bucket '"), Arg(bucket_name), Lit("' created successfully in '"),
             Arg(location), Lit("'.")>>)
  ELSE Str(<<Lit("Bucket '"), Arg(bucket_name), Lit("' created successfully in location '"),
             Arg(location), Lit("'.")>>)

create_bucket_run(v, be, bucket_name, location, inj) ==
  LET c == Call(1, inj, sdk_create_bucket(be, bucket_name, location), be)
  IN Try(create_bucket_except(v, bucket_name, location),
         Client(v, inj, be,
                OneCall(Made("create_bucket", "write", <<bucket_name>>, c), c,
                        create_bucket_ok(v, bucket_name, location))))

delete_bucket_except(v, bucket_name) ==
  IF v = "main"
  THEN << Clause("NotFound", Str(<<Lit("(!) Error: Bucket '"), Arg(bucket_name),
                                   Lit("' not found.")>>)),
          Clause("Forbidden", Str(<<Lit("(x) Error: Permission denied to delete bucket. Details: "),
                                    Hole>>)),
          Clause("Exception", Str(Unexpected(v))) >>
  ELSE << Clause("NotFound", Str(<<Lit("Error: Bucket '"), Arg(bucket_name),
                                   Lit("' not found.")>>)),
          Clause("Forbidden", Str(<<Lit("Error: Permission denied to delete bucket '"),
                                    Arg(bucket_name), Lit("'. Details: "), Hole>>)),
          Clause("Exception", Str(Unexpected(v))) >>

delete_bucket_ok(v, bucket_name) ==
  IF v = "main"
  THEN Str(<<Lit("(bin) Bucket '"), Arg(bucket_name), Lit("' deleted successfully.")>>)
  ELSE Str(<<Lit("Bucket '"), Arg(bucket_name), Lit("' deleted successfully.")>>)

delete_bucket_run(v, be, bucket_name, inj) ==
  LET c == Call(1, inj, sdk_bucket_delete(be, bucket_name), be)
  IN Try(delete_bucket_except(v, bucket_name),
         Client(v, inj, be,
                OneCall(Made("bucket.delete", "write", <<bucket_name>>, c), c,
                        delete_bucket_ok(v, bucket_name))))

\* list_objects answering a missing bucket with an empty listing
list_objects_except_empty(v, bucket_name) ==
  << Clause("NotFound", StrList(<< >>)),
     Clause("Exception", StrList(<< Unexpected(v) >>)) >>

list_objects_except(v, bucket_name) ==
  IF v = "main"
  THEN << Clause("NotFound", StrList(<< <<Lit("(!) Error: Bucket '"), Arg(bucket_name),
                                         Lit("' not found.")>> >>)),
          Clause("Exception", StrList(<< Unexpected(v) >>)) >>
  ELSE << Clause("NotFound", StrList(<< <<Lit("Error: Bucket '"), Arg(bucket_name),
                                         Lit("' not found.")>> >>)),
          Clause("Exception", StrList(<< Unexpected(v) >>)) >>

list_objects_run(v, be, bucket_name, inj) ==
  LET c == Call(1, inj, sdk_list_blobs(be, bucket_name), be)
  IN Try(list_objects_except(v, bucket_name),
         Client(v, inj, be,
                OneCall(Made("list_blobs", "read", <<bucket_name>>, c), c,
                        StrList(NameList(BlobNameSeq, c.ret)))))

upload_blob_except(v, bucket_name, source_file_name, destination_blob_name) ==
  IF v = "main"
  THEN << Clause("FileNotFoundError", Str(<<Lit("(!) Local file '"), Arg(source_file_name),
                                            Lit("' not found.")>>)),
          Clause("NotFound", Str(<<Lit("(!) Bucket '"), Arg(bucket_name), Lit("' not found.")>>)),
          Clause("Forbidden", Str(<<Lit("(x) Permission denied. Details: "), Hole>>)),
          Clause("Exception", Str(Unexpected(v))) >>
  ELSE << Clause("FileNotFoundError", Str(<<Lit("Error: Local file '"), Arg(source_file_name),
                                            Lit("' not found.")>>)),
          Clause("NotFound", Str(<<Lit("Error: Bucket '"), Arg(bucket_name),
                                   Lit("' not found.")>>)),
          Clause("Forbidden", Str(<<Lit("Error: Permission denied. Details: "), Hole>>)),
          Clause("Exception", Str(Unexpected(v))) >>

upload_blob_ok(v, bucket_name, source_file_name, destination_blob_name) ==
  Str(<<Lit(IF v = "main" THEN "(up) File '" ELSE "File '"), Arg(source_file_name),
        Lit("' uploaded to '"), Arg(destination_blob_name), Lit("' in bucket '"),
        Arg(bucket_name), Lit("'.")>>)

upload_blob_run(v, be, bucket_name, source_file_name, destination_blob_name, inj) ==
  LET c == Call(1, inj, sdk_upload_from_filename(be, bucket_name, destination_blob_name,
                                                 source_file_name), be)
  IN Try(upload_blob_except(v, bucket_name, source_file_name, destination_blob_name),
         Client(v, inj, be,
                OneCall(Made("upload_from_filename", "write",
                             <<bucket_name, destination_blob_name>>, c), c,
                        upload_blob_ok(v, bucket_name, source_file_name,
                                       destination_blob_name))))

\* download_blob with its final `except Exception` clause left out
download_blob_except_nofallback(v, bucket_name, blob_name) ==
  << Clause("NotFound", Str(<<Lit(IF v = "main" THEN "(!) Error: Bucket '" ELSE "Error: Bucket '"),
                              Arg(bucket_name), Lit("' or blob '"), Arg(blob_name),
                              Lit("' not found.")>>)) >>

download_blob_except(v, bucket_name, blob_name) ==
  << Clause("NotFound", Str(<<Lit(IF v = "main" THEN "(!) Error: Bucket '" ELSE "Error: Bucket '"),
                              Arg(bucket_name), Lit("' or blob '"), Arg(blob_name),
                              Lit("' not found.")>>)),
     Clause("Exception", Str(Unexpected(v))) >>

download_blob_ok(v, blob_name, destination_file_name) ==
  Str(<<Lit(IF v = "main" THEN "(down) Blob '" ELSE "Blob '"), Arg(blob_name),
        Lit("' downloaded to '"), Arg(destination_file_name), Lit("'.")>>)

download_blob_run(v, be, bucket_name, blob_name, destination_file_name, inj) ==
  LET c == Call(1, inj, sdk_download_to_filename(be, bucket_name, blob_name,
                                                 destination_file_name), be)
  IN Try(download_blob_except(v, bucket_name, blob_name),
         Client(v, inj, be,
                OneCall(Made("download_to_filename", "transfer", <<bucket_name, blob_name>>, c),
                        c, download_blob_ok(v, blob_name, destination_file_name))))

delete_blob_except(v, bucket_name, blob_name) ==
  << Clause("NotFound", Str(<<Lit(IF v = "main" THEN "(!) Error: Bucket '" ELSE "Error: Bucket '"),
                              Arg(bucket_name), Lit("' or blob '"), Arg(blob_name),
                              Lit("' not found.")>>)),
     Clause("Forbidden", Str(<<Lit(IF v = "main" THEN "(x) Permission denied. Details: "
                                   ELSE "Error: Permission denied. Details: "), Hole>>)),
     Clause("Exception", Str(Unexpected(v))) >>

delete_blob_ok(v, bucket_name, blob_name) ==
  Str(<<Lit(IF v = "main" THEN "(bin) Blob '" ELSE "Blob '"), Arg(blob_name),
        Lit("' deleted from bucket '"), Arg(bucket_name), Lit("'.")>>)

delete_blob_run(v, be, bucket_name, blob_name, inj) ==
  LET c == Call(1, inj, sdk_blob_delete(be, bucket_name, blob_name), be)
  IN Try(delete_blob_except(v, bucket_name, blob_name),
         Client(v, inj, be,
                OneCall(Made("blob.delete", "write", <<bucket_name, blob_name>>, c), c,
                        delete_blob_ok(v, bucket_name, blob_name))))

\* datetime.isoformat() of a timestamp the backend sets, None without one
Iso(t) == IF t = "none" THEN <<Lit("None")>> ELSE <<Lit("iso:"), Arg(t)>>

get_bucket_metadata_except(v, bucket_name) ==
  << Clause("NotFound", ErrorMap(<<Lit(IF v = "main" THEN "(!) Bucket '" ELSE "Bucket '"),
                                   Arg(bucket_name), Lit("' not found.")>>)),
     Clause("Exception", ErrorMap(Unexpected(v))) >>

\* the metadata map of get_bucket_metadata with the location under "name"
get_bucket_metadata_ok_misnamed(bucket_name, bucket, stamp) ==
  Map([key \in {"id", "name", "location", "storage_class", "created", "updated",
                "versioning_enabled"} |->
         CASE key = "id" -> <<Arg(bucket_name)>>
           [] key = "name" -> <<Arg(bucket.location)>>
           [] key = "location" -> <<Arg(bucket.location)>>
           [] key = "storage_class" -> <<Lit("STANDARD")>>
           [] key = "created" -> Iso(stamp)
           [] key = "updated" -> Iso(stamp)
           [] OTHER -> <<Lit("False")>>])

get_bucket_metadata_ok(bucket_name, bucket, stamp) ==
  Map([key \in {"id", "name", "location", "storage_class", "created", "updated",
                "versioning_enabled"} |->
         CASE key = "id" -> <<Arg(bucket_name)>>
           [] key = "name" -> <<Arg(bucket_name)>>
           [] key = "location" -> <<Arg(bucket.location)>>
           [] key = "storage_class" -> <<Lit("STANDARD")>>
           [] key = "created" -> Iso(stamp)
           [] key = "updated" -> Iso(stamp)
           [] OTHER -> <<Lit("False")>>])

get_bucket_metadata_run(v, be, bucket_name, stamp, inj) ==
  LET c == Call(1, inj, sdk_get_bucket(be, bucket_name), be)
  IN Try(get_bucket_metadata_except(v, bucket_name),
         Client(v, inj, be,
                IF c.exc # "none"
                THEN Failed(c.exc, <<Made("get_bucket", "read", <<bucket_name>>, c)>>, c.be)
                ELSE Done(get_bucket_metadata_ok(bucket_name, c.ret, stamp),
                          <<Made("get_bucket", "read", <<bucket_name>>, c)>>, c.be)))

get_blob_metadata_except(v, bucket_name, blob_name) ==
  << Clause("NotFound", ErrorMap(<<Lit(IF v = "main" THEN "(!) Bucket '" ELSE "Bucket '"),
                                   Arg(bucket_name), Lit("' not found.")>>)),
     Clause("Exception", ErrorMap(Unexpected(v))) >>

\* the absent-object return of get_blob_metadata with metadata keys beside "error"
get_blob_metadata_absent_partial(v, bucket_name, blob_name) ==
  Map([key \in {"error", "name", "bucket"} |->
         CASE key = "error" -> <<Lit("Blob '"), Arg(blob_name), Lit("' not found in bucket '"),
                                 Arg(bucket_name), Lit("'.")>>
           [] key = "name" -> <<Arg(blob_name)>>
           [] OTHER -> <<Arg(bucket_name)>>])

get_blob_metadata_absent(v, bucket_name, blob_name) ==
  IF v = "main"
  THEN ErrorMap(<<Lit("(!) Blob '"), Arg(blob_name), Lit("' not found in '"),
                  Arg(bucket_name), Lit("'.")>>)
  ELSE ErrorMap(<<Lit("Blob '"), Arg(blob_name), Lit("' not found in bucket '"),
                  Arg(bucket_name), Lit("'.")>>)

get_blob_metadata_ok(bucket_name, blob_name, stamp) ==
  Map([key \in {"name", "bucket", "size", "content_type", "updated", "storage_class",
                "crc32c", "md5_hash"} |->
         CASE key = "name" -> <<Arg(blob_name)>>
           [] key = "bucket" -> <<Arg(bucket_name)>>
           [] key = "updated" -> Iso(stamp)
           [] key = "storage_class" -> <<Lit("STANDARD")>>
           [] OTHER -> <<Lit(key)>>])

get_blob_metadata_run(v, be, bucket_name, blob_name, stamp, inj) ==
  LET c == Call(1, inj, sdk_get_blob(be, bucket_name, blob_name), be)
      made == <<MadeBool("get_blob", "read", <<bucket_name, blob_name>>, c)>>
  IN Try(get_blob_metadata_except(v, bucket_name, blob_name),
         Client(v, inj, be,
                IF c.exc # "none" THEN Failed(c.exc, made, c.be)
                ELSE IF ~c.ret
                     THEN Done(get_blob_metadata_absent(v, bucket_name, blob_name), made, c.be)
                     ELSE Done(get_blob_metadata_ok(bucket_name, blob_name, stamp), made, c.be)))

generate_signed_url_except(v, bucket_name) ==
  << Clause("NotFound", Str(<<Lit(IF v = "main" THEN "(!) Bucket '" ELSE "Error: Bucket '"),
                              Arg(bucket_name), Lit("' not found.")>>)),
     Clause("Exception", Str(Unexpected(v))) >>

generate_signed_url_absent(v, bucket_name, blob_name) ==
  IF v = "main"
  THEN Str(<<Lit("(!) Blob '"), Arg(blob_name), Lit("' not found.")>>)
  ELSE Str(<<Lit("Error: Blob '"), Arg(blob_name), Lit("' not found in bucket '"),
             Arg(bucket_name), Lit("'.")>>)

generate_signed_url_ok(v, expiration_minutes, url) ==
  IF v = "main"
  THEN Str(<<Lit("(link) Signed URL (valid "), Arg(expiration_minutes), Lit(" min): "),
             Arg(url)>>)
  ELSE Str(<<Arg(url)>>)

\* the existence check's answer ignored
exists_guard_ignored(found) == TRUE

\* whether the tool goes on to its second call after blob.exists() answered
exists_guard(found) == found

generate_signed_url_run(v, be, bucket_name, blob_name, expiration_minutes, inj) ==
  LET c1 == Call(1, inj, sdk_blob_exists(be, bucket_name, blob_name), be)
      m1 == MadeBool("exists", "read", <<bucket_name, blob_name>>, c1)
      c2 == Call(2, inj, sdk_generate_signed_url(c1.be, bucket_name, blob_name), c1.be)
      m2 == Made("generate_signed_url", "sign", <<bucket_name, blob_name>>, c2)
  IN Try(generate_signed_url_except(v, bucket_name),
         Client(v, inj, be,
                IF c1.exc # "none" THEN Failed(c1.exc, <<m1>>, c1.be)
                ELSE IF ~exists_guard(c1.ret)
                     THEN Done(generate_signed_url_absent(v, bucket_name, blob_name),
                               <<m1>>, c1.be)
                     ELSE IF c2.exc # "none" THEN Failed(c2.exc, <<m1, m2>>, c2.be)
                          ELSE Done(generate_signed_url_ok(v, expiration_minutes, c2.ret),
                                    <<m1, m2>>, c2.be)))

rename_blob_except(v, bucket_name, blob_name) ==
  IF v = "main"
  THEN << Clause("Exception", Str(Unexpected(v))) >>
  ELSE << Clause("NotFound", Str(<<Lit("Error: Bucket '"), Arg(bucket_name),
                                   Lit("' or blob '"), Arg(blob_name), Lit("' not found.")>>)),
          Clause("Exception", Str(Unexpected(v))) >>

rename_blob_absent(v, blob_name) ==
  IF v = "main"
  THEN Str(<<Lit("(!) Blob '"), Arg(blob_name), Lit("' not found.")>>)
  ELSE Str(<<Lit("Error: Source blob '"), Arg(blob_name), Lit("' not found.")>>)

rename_blob_ok(v, bucket_name, blob_name, new_blob_name) ==
  IF v = "main"
  THEN Str(<<Lit("(pen) Blob renamed from '"), Arg(blob_name), Lit("' -> '"),
             Arg(new_blob_name), Lit("'.")>>)
  ELSE Str(<<Lit("Blob '"), Arg(blob_name), Lit("' renamed to '"), Arg(new_blob_name),
             Lit("' in bucket '"), Arg(bucket_name), Lit("'.")>>)

rename_blob_run(v, be, bucket_name, blob_name, new_name, inj) ==
  LET c1 == Call(1, inj, sdk_blob_exists(be, bucket_name, blob_name), be)
      m1 == MadeBool("exists", "read", <<bucket_name, blob_name>>, c1)
      c2 == Call(2, inj, sdk_rename_blob(c1.be, bucket_name, blob_name, new_name), c1.be)
      m2 == Made("rename_blob", "write", <<bucket_name, blob_name>>, c2)
  IN Try(rename_blob_except(v, bucket_name, blob_name),
         Client(v, inj, be,
                IF c1.exc # "none" THEN Failed(c1.exc, <<m1>>, c1.be)
                ELSE IF ~exists_guard(c1.ret)
                     THEN Done(rename_blob_absent(v, blob_name), <<m1>>, c1.be)
                     ELSE IF c2.exc # "none" THEN Failed(c2.exc, <<m1, m2>>, c2.be)
                          ELSE Done(rename_blob_ok(v, bucket_name, blob_name, c2.ret),
                                    <<m1, m2>>, c2.be)))

\* copy_blob catching the permission error only
copy_blob_except_narrow(v) ==
  << Clause("Forbidden", Str(<<Lit(IF v = "main" THEN "(x) Permission denied. Details: "
                                                  ELSE "Error: Permission denied. Details: "),
                                Hole>>)) >>

copy_blob_except(v) ==
  IF v = "main"
  THEN << Clause("Exception", Str(Unexpected(v))) >>
  ELSE << Clause("NotFound", Str(<<Lit("Error: Source or destination bucket not found.")>>)),
          Clause("Exception", Str(Unexpected(v))) >>

\* the early return of copy_blob reporting the copy as done
copy_blob_absent_as_done(v, source_bucket_name, blob_name) ==
  IF v = "main"
  THEN Str(<<Lit("(box) Blob '"), Arg(blob_name), Lit("' copied.")>>)
  ELSE Str(<<Lit("Blob '"), Arg(blob_name), Lit("' copied.")>>)

copy_blob_absent(v, source_bucket_name, blob_name) ==
  IF v = "main"
  THEN Str(<<Lit("(!) Source blob '"), Arg(blob_name), Lit("' not found.")>>)
  ELSE Str(<<Lit("Error: Source blob '"), Arg(blob_name), Lit("' not found in bucket '"),
             Arg(source_bucket_name), Lit("'.")>>)

copy_blob_ok(v, blob_name, destination_bucket_name, destination_blob_name) ==
  IF v = "main"
  THEN Str(<<Lit("(box) Blob '"), Arg(blob_name), Lit("' copied -> '"),
             Arg(destination_blob_name), Lit("' in '"), Arg(destination_bucket_name),
             Lit("'.")>>)
  ELSE Str(<<Lit("Blob '"), Arg(blob_name), Lit("' copied to '"), Arg(destination_blob_name),
             Lit("' in bucket '"), Arg(destination_bucket_name), Lit("'.")>>)

copy_blob_run(v, be, source_bucket_name, blob_name, destination_bucket_name, destination_blob_name, inj) ==
  LET c1 == Call(1, inj, sdk_blob_exists(be, source_bucket_name, blob_name), be)
      m1 == MadeBool("exists", "read", <<source_bucket_name, blob_name>>, c1)
      c2 == Call(2, inj, sdk_copy_blob(c1.be, source_bucket_name, blob_name,
                                       destination_bucket_name, destination_blob_name), c1.be)
      m2 == Made("copy_blob", "write", <<source_bucket_name, blob_name>>, c2)
  IN Try(copy_blob_except(v),
         Client(v, inj, be,
                IF c1.exc # "none" THEN Failed(c1.exc, <<m1>>, c1.be)
                ELSE IF ~exists_guard(c1.ret)
                     THEN Done(copy_blob_absent(v, source_bucket_name, blob_name), <<m1>>, c1.be)
                     ELSE IF c2.exc # "none" THEN Failed(c2.exc, <<m1, m2>>, c2.be)
                          ELSE Done(copy_blob_ok(v, blob_name, destination_bucket_name,
                                                 destination_blob_name),
                                    <<m1, m2>>, c2.be)))

set_bucket_cors_except(v) == << Clause("Exception", Str(Unexpected(v))) >>

set_bucket_cors_ok(bucket_name) ==
  Str(<<Lit("(web) CORS config updated for '"), Arg(bucket_name), Lit("'.")>>)

\* set_bucket_cors assigning bucket.cors without calling bucket.patch()
set_bucket_cors_run_unpatched(v, be, bucket_name, cors_rules, inj) ==
  LET c1 == Call(1, inj, sdk_get_bucket(be, bucket_name), be)
      m1 == Made("get_bucket", "read", <<bucket_name>>, c1)
  IN Try(set_bucket_cors_except(v),
         Client(v, inj, be,
                IF c1.exc # "none" THEN Failed(c1.exc, <<m1>>, c1.be)
                ELSE Done(set_bucket_cors_ok(bucket_name), <<m1>>, c1.be)))

set_bucket_cors_run(v, be, bucket_name, cors_rules, inj) ==
  LET c1 == Call(1, inj, sdk_get_bucket(be, bucket_name), be)
      m1 == Made("get_bucket", "read", <<bucket_name>>, c1)
      c2 == Call(2, inj, sdk_bucket_patch(c1.be, bucket_name, cors_rules), c1.be)
      m2 == Made("patch", "write", <<bucket_name>>, c2)
  IN Try(set_bucket_cors_except(v),
         Client(v, inj, be,
                IF c1.exc # "none" THEN Failed(c1.exc, <<m1>>, c1.be)
                ELSE IF c2.exc # "none" THEN Failed(c2.exc, <<m1, m2>>, c2.be)
                     ELSE Done(set_bucket_cors_ok(bucket_name), <<m1, m2>>, c2.be)))

\* health_check probing the backend before it answers
health_check_run_probing(v, be, inj) ==
  LET c == Call(1, inj, sdk_list_buckets(be), be)
  IN Try(<< Clause("Exception", Str(Unexpected(v))) >>,
         Client(v, inj, be,
                OneCall(Made("list_buckets", "read", <<>>, c), c,
                        Str(<<Lit("(ok) Server is up and running!")>>))))

health_check_run(v, be, inj) ==
  [result |-> Str(<<Lit("(ok) Server is up and running!")>>), exc |-> "none",
   calls |-> <<>>, be |-> be]

-----------------------------------------------------------------------------
\* Invocations

BE == [buckets |-> buckets, objects |-> objects]

Idle ==
  [op |-> "none", variant |-> "main", args |-> [none |-> "none"], inj |-> NoFault,
   calls |-> <<>>, exc |-> "none", result |-> [shape |-> "none", val |-> <<>>]]

\* The host takes a request when the previous result has been handed over
Ready == last = Idle

\* No rename_blob or copy_blob is between its blob.exists() and its next call
NoInvocation == [op |-> "none", variant |-> "main", args |-> [none |-> "none"]]

\* One invocation, from the host's dispatch of the request to the tool's return
Commit(op, v, args, inj, r) ==
  /\ buckets' = r.be.buckets
  /\ objects' = r.be.objects
  /\ last' = [op |-> op, variant |-> v, args |-> args, inj |-> inj,
              calls |-> r.calls, exc |-> r.exc, result |-> r.result]
  /\ pre' = BE
  /\ inflight' = inflight

Init ==
  /\ buckets = [b \in {} |-> NewBucket("US")]
  /\ objects = {}
  /\ last = Idle
  /\ pre = BE
  /\ inflight = NoInvocation

\* The host hands the returned value to the caller and takes the next request
respond ==
  /\ last # Idle
  /\ last' = Idle
  /\ pre' = BE
  /\ UNCHANGED <<buckets, objects, inflight>>

greet ==
  /\ Ready
  /\ \E v \in Variants, name \in GreetNames :
      Commit("greet", v, [name |-> name], NoFault,
             [result |-> greet_run(v, name), exc |-> "none", calls |-> <<>>, be |-> BE])

list_gcs_buckets ==
  /\ Ready
  /\ \E v \in Variants : \E inj \in FaultsOf(v, 1, BackendErrors) :
      Commit("list_gcs_buckets", v, [none |-> "none"], inj, list_gcs_buckets_run(v, BE, inj))

create_bucket ==
  /\ Ready
  /\ \E v \in Variants, bucket_name \in BucketNames, location \in Locations :
      \E inj \in FaultsOf(v, 1, BackendErrors \cup {"Conflict"}) :
        Commit("create_bucket", v, [bucket |-> bucket_name, location |-> location], inj,
               create_bucket_run(v, BE, bucket_name, location, inj))

delete_bucket ==
  /\ Ready
  /\ \E v \in Variants, bucket_name \in BucketNames : \E inj \in FaultsOf(v, 1, BackendErrors) :
      Commit("delete_bucket", v, [bucket |-> bucket_name], inj,
             delete_bucket_run(v, BE, bucket_name, inj))

list_objects ==
  /\ Ready
  /\ \E v \in Variants, bucket_name \in BucketNames : \E inj \in FaultsOf(v, 1, BackendErrors) :
      Commit("list_objects", v, [bucket |-> bucket_name], inj,
             list_objects_run(v, BE, bucket_name, inj))

upload_blob ==
  /\ Ready
  /\ \E v \in Variants, bucket_name \in BucketNames, source_file_name \in LocalFiles,
       destination_blob_name \in BlobNames :
      \E inj \in FaultsOf(v, 1, BackendErrors \cup {"FileNotFoundError"}) :
        Commit("upload_blob", v,
               [bucket |-> bucket_name, file |-> source_file_name,
                blob |-> destination_blob_name], inj,
               upload_blob_run(v, BE, bucket_name, source_file_name, destination_blob_name, inj))

download_blob ==
  /\ Ready
  /\ \E v \in Variants, bucket_name \in BucketNames, blob_name \in BlobNames,
       destination_file_name \in DestFiles :
      \E inj \in FaultsOf(v, 1, BackendErrors \cup {"FileNotFoundError"}) :
        Commit("download_blob", v,
               [bucket |-> bucket_name, blob |-> blob_name, file |-> destination_file_name], inj,
               download_blob_run(v, BE, bucket_name, blob_name, destination_file_name, inj))

delete_blob ==
  /\ Ready
  /\ \E v \in Variants, bucket_name \in BucketNames, blob_name \in BlobNames :
      \E inj \in FaultsOf(v, 1, BackendErrors) :
        Commit("delete_blob", v, [bucket |-> bucket_name, blob |-> blob_name], inj,
               delete_blob_run(v, BE, bucket_name, blob_name, inj))

get_bucket_metadata ==
  /\ Ready
  /\ \E v \in Variants, bucket_name \in BucketNames, stamp \in Stamps :
      \E inj \in FaultsOf(v, 1, BackendErrors) :
        Commit("get_bucket_metadata", v, [bucket |-> bucket_name], inj,
               get_bucket_metadata_run(v, BE, bucket_name, stamp, inj))

get_blob_metadata ==
  /\ Ready
  /\ \E v \in Variants, bucket_name \in BucketNames, blob_name \in BlobNames, stamp \in Stamps :
      \E inj \in FaultsOf(v, 1, BackendErrors) :
        Commit("get_blob_metadata", v, [bucket |-> bucket_name, blob |-> blob_name], inj,
               get_blob_metadata_run(v, BE, bucket_name, blob_name, stamp, inj))

generate_signed_url ==
  /\ Ready
  /\ \E v \in Variants, bucket_name \in BucketNames, blob_name \in BlobNames,
       expiration_minutes \in ExpirationMinutes :
      \E inj \in FaultsOf(v, 2, BackendErrors) :
        Commit("generate_signed_url", v, [bucket |-> bucket_name, blob |-> blob_name], inj,
               generate_signed_url_run(v, BE, bucket_name, blob_name, expiration_minutes, inj))

rename_blob ==
  /\ Ready
  /\ \E v \in Variants, bucket_name \in BucketNames, blob_name \in BlobNames,
       new_name \in BlobNames :
      \E inj \in FaultsOf(v, 2, BackendErrors) :
        Commit("rename_blob", v,
               [bucket |-> bucket_name, blob |-> blob_name, new_name |-> new_name], inj,
               rename_blob_run(v, BE, bucket_name, blob_name, new_name, inj))

copy_blob ==
  /\ Ready
  /\ \E v \in Variants, source_bucket_name \in BucketNames, blob_name \in BlobNames,
       destination_bucket_name \in BucketNames, destination_blob_name \in BlobNames :
      \E inj \in FaultsOf(v, 2, BackendErrors) :
        Commit("copy_blob", v,
               [bucket |-> source_bucket_name, blob |-> blob_name,
                dst_bucket |-> destination_bucket_name, dst_blob |-> destination_blob_name], inj,
               copy_blob_run(v, BE, source_bucket_name, blob_name, destination_bucket_name,
                             destination_blob_name, inj))

\* set_bucket_cors and health_check are tools of src/main.py only
set_bucket_cors ==
  /\ Ready
  /\ \E bucket_name \in BucketNames, cors_rules \in CorsRules :
      \E inj \in FaultsOf("main", 2, BackendErrors) :
        Commit("set_bucket_cors", "main", [bucket |-> bucket_name, cors |-> cors_rules], inj,
               set_bucket_cors_run("main", BE, bucket_name, cors_rules, inj))

health_check ==
  /\ Ready
  /\ \E inj \in FaultsOf("main", 1, BackendErrors) :
      Commit("health_check", "main", [none |-> "none"], inj, health_check_run("main", BE, inj))

Next ==
  \/ greet
  \/ list_gcs_buckets
  \/ create_bucket
  \/ delete_bucket
  \/ list_objects
  \/ upload_blob
  \/ download_blob
  \/ delete_blob
  \/ get_bucket_metadata
  \/ get_blob_metadata
  \/ generate_signed_url
  \/ rename_blob
  \/ copy_blob
  \/ set_bucket_cors
  \/ health_check
  \/ respond

Spec == Init /\ [][Next]_vars

-----------------------------------------------------------------------------
\* Concurrent invocations. The host may run tool calls side by side and the
\* tools take no lock: between the blob.exists() of rename_blob or copy_blob and
\* the call that follows it, another invocation's delete_blob can reach the
\* backend. The invocation that has been answered True by blob.exists() is held
\* in inflight until its next call is made.

\* rename_blob from the line after its existence check, against the backend as
\* it is when bucket.rename_blob() is called
rename_blob_resume(v, be, bucket_name, blob_name, new_name, inj) ==
  LET m1 == MadeBool("exists", "read", <<bucket_name, blob_name>>, Returns(TRUE, be))
      c2 == Call(2, inj, sdk_rename_blob(be, bucket_name, blob_name, new_name), be)
      m2 == Made("rename_blob", "write", <<bucket_name, blob_name>>, c2)
  IN Try(rename_blob_except(v, bucket_name, blob_name),
         IF c2.exc # "none" THEN Failed(c2.exc, <<m1, m2>>, c2.be)
         ELSE Done(rename_blob_ok(v, bucket_name, blob_name, c2.ret), <<m1, m2>>, c2.be))

\* copy_blob from the line after its existence check, against the backend as
\* it is when source_bucket.copy_blob() is called
copy_blob_resume(v, be, source_bucket_name, blob_name, destination_bucket_name, destination_blob_name, inj) ==
  LET m1 == MadeBool("exists", "read", <<source_bucket_name, blob_name>>, Returns(TRUE, be))
      c2 == Call(2, inj, sdk_copy_blob(be, source_bucket_name, blob_name,
                                       destination_bucket_name, destination_blob_name), be)
      m2 == Made("copy_blob", "write", <<source_bucket_name, blob_name>>, c2)
  IN Try(copy_blob_except(v),
         IF c2.exc # "none" THEN Failed(c2.exc, <<m1, m2>>, c2.be)
         ELSE Done(copy_blob_ok(v, blob_name, destination_bucket_name, destination_blob_name),
                   <<m1, m2>>, c2.be))

\* the faults the call after the existence check can meet
SecondCallFaults == {NoFault} \cup {[at |-> 2, type |-> t] : t \in BackendErrors}

\* an invocation's return, with no rename_blob or copy_blob left in flight
Return(op, v, args, inj, r) ==
  /\ buckets' = r.be.buckets
  /\ objects' = r.be.objects
  /\ last' = [op |-> op, variant |-> v, args |-> args, inj |-> inj,
              calls |-> r.calls, exc |-> r.exc, result |-> r.result]
  /\ pre' = BE
  /\ inflight' = NoInvocation

\* rename_blob up to its existence check: answered True it goes on to its next
\* call in a later step, otherwise it returns here
rename_blob_check ==
  /\ Ready
  /\ inflight = NoInvocation
  /\ \E v \in Variants, bucket_name \in BucketNames, blob_name \in BlobNames,
       new_name \in BlobNames :
      \E inj \in FaultsOf(v, 1, BackendErrors) :
        LET c1 == Call(1, inj, sdk_blob_exists(BE, bucket_name, blob_name), BE)
            args == [bucket |-> bucket_name, blob |-> blob_name, new_name |-> new_name]
        IN IF inj = NoFault /\ c1.exc = "none" /\ exists_guard(c1.ret)
           THEN /\ inflight' = [op |-> "rename_blob", variant |-> v, args |-> args]
                /\ UNCHANGED <<buckets, objects, last, pre>>
           ELSE Return("rename_blob", v, args, inj,
                       rename_blob_run(v, BE, bucket_name, blob_name, new_name, inj))

\* bucket.rename_blob() of the invocation in flight, and its return
rename_blob_call ==
  /\ Ready
  /\ inflight.op = "rename_blob"
  /\ \E inj \in SecondCallFaults :
      Return("rename_blob", inflight.variant, inflight.args, inj,
             rename_blob_resume(inflight.variant, BE, inflight.args.bucket,
                                inflight.args.blob, inflight.args.new_name, inj))

copy_blob_check ==
  /\ Ready
  /\ inflight = NoInvocation
  /\ \E v \in Variants, source_bucket_name \in BucketNames, blob_name \in BlobNames,
       destination_bucket_name \in BucketNames, destination_blob_name \in BlobNames :
      \E inj \in FaultsOf(v, 1, BackendErrors) :
        LET c1 == Call(1, inj, sdk_blob_exists(BE, source_bucket_name, blob_name), BE)
            args == [bucket |-> source_bucket_name, blob |-> blob_name,
                     dst_bucket |-> destination_bucket_name,
                     dst_blob |-> destination_blob_name]
        IN IF inj = NoFault /\ c1.exc = "none" /\ exists_guard(c1.ret)
           THEN /\ inflight' = [op |-> "copy_blob", variant |-> v, args |-> args]
                /\ UNCHANGED <<buckets, objects, last, pre>>
           ELSE Return("copy_blob", v, args, inj,
                       copy_blob_run(v, BE, source_bucket_name, blob_name,
                                     destination_bucket_name, destination_blob_name, inj))

\* source_bucket.copy_blob() of the invocation in flight, and its return
copy_blob_call ==
  /\ Ready
  /\ inflight.op = "copy_blob"
  /\ \E inj \in SecondCallFaults :
      Return("copy_blob", inflight.variant, inflight.args, inj,
             copy_blob_resume(inflight.variant, BE, inflight.args.bucket, inflight.args.blob,
                              inflight.args.dst_bucket, inflight.args.dst_blob, inj))

\* the invocations that fill the backend, taken while nothing is in flight
create_bucket_alone == inflight = NoInvocation /\ create_bucket
upload_blob_alone == inflight = NoInvocation /\ upload_blob

\* delete_blob runs at any time, also beside an invocation in flight
NextConc ==
  \/ create_bucket_alone
  \/ upload_blob_alone
  \/ delete_blob
  \/ rename_blob_check
  \/ rename_blob_call
  \/ copy_blob_check
  \/ copy_blob_call
  \/ respond

SpecConc == Init /\ [][NextConc]_vars

-----------------------------------------------------------------------------
\* Vocabulary of the claims

Pending == last.op # "none"

Tools ==
  {"greet", "list_gcs_buckets", "create_bucket", "delete_bucket", "list_objects",
   "upload_blob", "download_blob", "delete_blob", "get_bucket_metadata",
   "get_blob_metadata", "generate_signed_url", "rename_blob", "copy_blob",
   "set_bucket_cors", "health_check"}

\* the return annotation of each tool
DeclaredShape(op) ==
  CASE op \in {"list_gcs_buckets", "list_objects"} -> "list"
    [] op \in {"get_bucket_metadata", "get_blob_metadata"} -> "map"
    [] OTHER -> "str"

\* the texts a result carries
ResultTexts(r) ==
  CASE r.shape = "str" -> {r.val}
    [] r.shape = "list" -> {r.val[i] : i \in DOMAIN r.val}
    [] r.shape = "map" -> {r.val[key] : key \in DOMAIN r.val}
    [] OTHER -> {}

Literals(t) == {t[i].s : i \in {j \in DOMAIN t : t[j].k = "lit"}}
Arguments(t) == {t[i].s : i \in {j \in DOMAIN t : t[j].k = "arg"}}
HasDetail(t) == \E i \in DOMAIN t : t[i].k = "detail"

\* a text with its substituted values blanked: the wording alone
Pattern(t) == [i \in DOMAIN t |-> IF t[i].k = "lit" THEN t[i] ELSE [k |-> t[i].k, s |-> "_"]]

NotFoundMarkers ==
  {"' not found.", "' not found in '", "' not found in bucket '",
   "Error: Source or destination bucket not found."}
ConflictMarkers == {"' already exists."}
PermissionMarkers ==
  {"Error: Permission denied to list buckets. Details: ",
   "(x) Error: Permission denied to create bucket. Details: ",
   "Error: Permission denied to create bucket. Details: ",
   "(x) Error: Permission denied to delete bucket. Details: ",
   "Error: Permission denied to delete bucket '",
   "(x) Permission denied. Details: ",
   "Error: Permission denied. Details: "}
GenericMarkers == {"(x) Unexpected error: ", "An unexpected error occurred: "}
SuccessMarkers ==
  {"' created successfully in '", "' created successfully in location '",
   "' deleted successfully.", "' uploaded to '", "' downloaded to '",
   "' deleted from bucket '", "(link) Signed URL (valid ", "(pen) Blob renamed from '",
   "' renamed to '", "' copied -> '", "' copied to '", "(web) CORS config updated for '",
   "(ok) Server is up and running!"}

NotFoundMarked(t) == Literals(t) \cap NotFoundMarkers # {}
ConflictMarked(t) == Literals(t) \cap ConflictMarkers # {}
PermissionMarked(t) == Literals(t) \cap PermissionMarkers # {}
Generic(t) == Literals(t) \cap GenericMarkers # {}
SuccessMarked(t) == Literals(t) \cap SuccessMarkers # {}

\* the category of the spec's taxonomy an exception class belongs to
ExcCategory(t) ==
  CASE t = "NotFound" -> "NotFound"
    [] t = "Conflict" -> "Conflict"
    [] t = "Forbidden" -> "PermissionDenied"
    [] t = "FileNotFoundError" -> "LocalIOError"
    [] OTHER -> "Unexpected"

\* the invocation's last backend call answered "no such object"
AnsweredAbsent(l) == l.calls # <<>> /\ l.calls[Len(l.calls)].out = "False"

\* the backend reported the invocation's resource as not found
ReportedNotFound(l) == l.exc = "NotFound" \/ (l.exc = "none" /\ AnsweredAbsent(l))

\* the invocation ran to its success return
Succeeded(l) == l.exc = "none" /\ ~AnsweredAbsent(l)

\* the tools that are given an existing bucket or object to work on
HasResource(op) ==
  op \in Tools \ {"greet", "list_gcs_buckets", "create_bucket", "health_check"}

NamesResource(t, args) ==
  \/ args.bucket \in Arguments(t)
  \/ "blob" \in DOMAIN args /\ args.blob \in Arguments(t)

Calls(l, kind) == {i \in DOMAIN l.calls : l.calls[i].kind = kind}

\* the except clauses of the tool an invocation ran
ClausesOf(l) ==
  CASE l.op = "list_gcs_buckets" -> list_gcs_buckets_except(l.variant)
    [] l.op = "create_bucket" -> create_bucket_except(l.variant, l.args.bucket, l.args.location)
    [] l.op = "delete_bucket" -> delete_bucket_except(l.variant, l.args.bucket)
    [] l.op = "list_objects" -> list_objects_except(l.variant, l.args.bucket)
    [] l.op = "upload_blob" ->
         upload_blob_except(l.variant, l.args.bucket, l.args.file, l.args.blob)
    [] l.op = "download_blob" -> download_blob_except(l.variant, l.args.bucket, l.args.blob)
    [] l.op = "delete_blob" -> delete_blob_except(l.variant, l.args.bucket, l.args.blob)
    [] l.op = "get_bucket_metadata" -> get_bucket_metadata_except(l.variant, l.args.bucket)
    [] l.op = "get_blob_metadata" ->
         get_blob_metadata_except(l.variant, l.args.bucket, l.args.blob)
    [] l.op = "generate_signed_url" -> generate_signed_url_except(l.variant, l.args.bucket)
    [] l.op = "rename_blob" -> rename_blob_except(l.variant, l.args.bucket, l.args.blob)
    [] l.op = "copy_blob" -> copy_blob_except(l.variant)
    [] l.op = "set_bucket_cors" -> set_bucket_cors_except(l.variant)
    [] OTHER -> <<>>

\* the wordings the invocation's tool returns for an exception of class t
WordingFor(l, t) == {Pattern(x) : x \in ResultTexts(Dispatch(ClausesOf(l), Exc(t)))}

-----------------------------------------------------------------------------
\* C1: every invocation of every tool, whatever its backend calls answered or
\* raised, ends by returning a value of the tool's declared shape (a string, a
\* list of strings, a string-keyed map); none ends with an exception raised to
\* the caller.
C1_ReturnsDeclaredShape ==
  Pending =>
    /\ last.result.shape # "raised"
    /\ last.result.shape = DeclaredShape(last.op)

\* an exception outside the named backend categories was caught and a map returned
C1_Witness ==
  /\ Pending
  /\ last.exc = "Other"
  /\ last.op = "get_blob_metadata"
  /\ last.result.shape = "map"

\* C2 (as claimed): whenever the backend reports NotFound for the resource an
\* invocation names, every text of the result carries a NotFound marker and
\* the resource's identifier, and is not the generic unexpected-error text.
C2_NotFoundMarkedAndNamed ==
  (Pending /\ HasResource(last.op) /\ ReportedNotFound(last)) =>
    /\ last.result.shape # "raised"
    /\ \A t \in ResultTexts(last.result) :
         NotFoundMarked(t) /\ NamesResource(t, last.args) /\ ~Generic(t)

\* C3 (as claimed): the wording returned for a failure of one category is never
\* a wording the same tool returns for a failure of another category, and a
\* Forbidden error yields a permission-denied wording carrying the error detail.
C3_CategoriesNeverShareWording ==
  (Pending /\ last.exc # "none") =>
    /\ \A t \in ExcTypes :
         ExcCategory(t) # ExcCategory(last.exc) =>
           {Pattern(x) : x \in ResultTexts(last.result)} \cap WordingFor(last, t) = {}
    /\ last.exc = "Forbidden" =>
         \A x \in ResultTexts(last.result) :
           PermissionMarked(x) /\ HasDetail(x) /\ ~Generic(x)

\* C4: in an invocation of generate_signed_url, a call of the signer
\* (blob.generate_signed_url) comes only after an existence check of the same
\* object that answered True; for an object that does not exist the signer is
\* not called, and the result, when the existence check answered, is a
\* NotFound-marked string.
C4_SignerOnlyAfterExists ==
  (Pending /\ last.op = "generate_signed_url") =>
    /\ \A i \in Calls(last, "sign") :
         \E j \in 1..(i - 1) :
           /\ last.calls[j].call = "exists"
           /\ last.calls[j].target = last.calls[i].target
           /\ last.calls[j].out = "True"
    /\ ~Exists(pre, last.args.bucket, last.args.blob) =>
         /\ Calls(last, "sign") = {}
         /\ last.exc = "none" =>
              /\ last.result.shape = "str"
              /\ NotFoundMarked(last.result.val)
              /\ ~SuccessMarked(last.result.val)

\* generate_signed_url returned for an object that is not in an existing bucket
C4_Witness ==
  /\ Pending
  /\ last.op = "generate_signed_url"
  /\ last.args.bucket \in DOMAIN pre.buckets
  /\ ~Exists(pre, last.args.bucket, last.args.blob)
  /\ last.inj = NoFault
  /\ NotFoundMarked(last.result.val)

\* C5: rename_blob and copy_blob invoked with a source object that does not
\* exist make no mutating backend call and leave every bucket's objects as they
\* were; the result, when the existence check answered, is NotFound-marked and
\* names the source object.
C5_AbsentSourceNoMutation ==
  (Pending /\ last.op \in {"rename_blob", "copy_blob"}
           /\ ~Exists(pre, last.args.bucket, last.args.blob)) =>
    /\ Calls(last, "write") = {}
    /\ objects = pre.objects
    /\ buckets = pre.buckets
    /\ last.exc = "none" =>
         /\ last.result.shape = "str"
         /\ NotFoundMarked(last.result.val)
         /\ last.args.blob \in Arguments(last.result.val)
         /\ ~SuccessMarked(last.result.val)

\* copy_blob returned for an absent source while the destination bucket exists
C5_Witness ==
  /\ Pending
  /\ last.op = "copy_blob"
  /\ last.args.dst_bucket \in DOMAIN pre.buckets
  /\ last.args.bucket \in DOMAIN pre.buckets
  /\ ~Exists(pre, last.args.bucket, last.args.blob)
  /\ <<last.args.dst_bucket, last.args.dst_blob>> \notin objects
  /\ last.inj = NoFault

\* the step is an invocation of create_bucket
IsCreate == last = Idle /\ last'.op = "create_bucket"

\* C6: a successful create_bucket leaves the bucket in the backend, where it
\* stays until a delete_bucket of that name; create_bucket invoked for a name
\* that is in the backend never reports success and leaves the backend as it
\* was, and, when the backend answers the request, returns the Conflict-marked
\* "already exists" text naming the bucket.
C6_SecondCreateConflicts ==
  [][ /\ (IsCreate /\ SuccessMarked(last'.result.val)) =>
           /\ last'.args.bucket \notin DOMAIN buckets
           /\ last'.args.bucket \in DOMAIN buckets'
      /\ \A b \in DOMAIN buckets :
           b \notin DOMAIN buckets' => (last'.op = "delete_bucket" /\ last'.args.bucket = b)
      /\ (IsCreate /\ last'.args.bucket \in DOMAIN buckets) =>
           /\ last'.result.shape = "str"
           /\ ~SuccessMarked(last'.result.val)
           /\ buckets' = buckets
           /\ objects' = objects
           /\ last'.inj = NoFault =>
                /\ ConflictMarked(last'.result.val)
                /\ last'.args.bucket \in Arguments(last'.result.val)
                /\ ~Generic(last'.result.val)
    ]_vars

\* create_bucket returned for a name created earlier, with another location
C6_Witness ==
  /\ Pending
  /\ last.op = "create_bucket"
  /\ last.inj = NoFault
  /\ last.args.bucket \in DOMAIN pre.buckets
  /\ pre.buckets[last.args.bucket].location # last.args.location
  /\ ConflictMarked(last.result.val)

\* C7: get_bucket_metadata and get_blob_metadata return, for every failure
\* (bucket not found, object absent, any other exception), a map whose only key
\* is "error", with a text as its value; no result holds "error" beside
\* metadata keys, and the map of a success does not hold "error".
C7_ErrorMapHasOnlyError ==
  (Pending /\ last.op \in {"get_bucket_metadata", "get_blob_metadata"}) =>
    /\ last.result.shape = "map"
    /\ ~Succeeded(last) =>
         /\ DOMAIN last.result.val = {"error"}
         /\ Literals(last.result.val["error"]) # {}
    /\ "error" \in DOMAIN last.result.val => DOMAIN last.result.val = {"error"}
    /\ Succeeded(last) =>
         /\ "error" \notin DOMAIN last.result.val
         /\ "name" \in DOMAIN last.result.val

\* get_blob_metadata returned for an object that is not in an existing bucket
C7_Witness ==
  /\ Pending
  /\ last.op = "get_blob_metadata"
  /\ last.args.bucket \in DOMAIN pre.buckets
  /\ AnsweredAbsent(last)
  /\ DOMAIN last.result.val = {"error"}

\* C8: list_gcs_buckets and list_objects return, when the backend reports
\* NotFound or Forbidden, a list of exactly one element, the error text; never
\* an empty list, never an exception.
C8_ListErrorIsSingleton ==
  (Pending /\ last.op \in {"list_gcs_buckets", "list_objects"}
           /\ last.exc \in {"NotFound", "Forbidden"}) =>
    /\ last.result.shape = "list"
    /\ Len(last.result.val) = 1
    /\ HasDetail(last.result.val[1])
         \/ NotFoundMarked(last.result.val[1])
         \/ PermissionMarked(last.result.val[1])

\* list_objects returned for a bucket the backend does not have
C8_Witness ==
  /\ Pending
  /\ last.op = "list_objects"
  /\ last.inj = NoFault
  /\ last.exc = "NotFound"
  /\ Len(last.result.val) = 1

Mutating ==
  {"create_bucket", "delete_bucket", "upload_blob", "download_blob", "delete_blob",
   "rename_blob", "copy_blob", "set_bucket_cors"}
NonMutating ==
  {"list_gcs_buckets", "list_objects", "get_bucket_metadata", "get_blob_metadata",
   "generate_signed_url"}

\* the backend call a tool exists to make
OpCall(op) ==
  CASE op = "create_bucket" -> "create_bucket"
    [] op = "delete_bucket" -> "bucket.delete"
    [] op = "upload_blob" -> "upload_from_filename"
    [] op = "download_blob" -> "download_to_filename"
    [] op = "delete_blob" -> "blob.delete"
    [] op = "rename_blob" -> "rename_blob"
    [] op = "copy_blob" -> "copy_blob"
    [] op = "set_bucket_cors" -> "patch"
    [] OTHER -> "none"

BackendUnchanged == buckets = pre.buckets /\ objects = pre.objects

\* C9 (as claimed): a successful invocation of a mutating tool, download_blob
\* among them, makes exactly one mutating backend call, the tool's own; an
\* invocation of a non-mutating tool makes none and at most one backend read.
C9_OneMutationPerMutatingTool ==
  Pending =>
    /\ (last.op \in Mutating /\ Succeeded(last)) =>
         /\ Cardinality(Calls(last, "write")) = 1
         /\ \A i \in Calls(last, "write") : last.calls[i].call = OpCall(last.op)
    /\ last.op \in NonMutating =>
         /\ Calls(last, "write") = {}
         /\ Cardinality(Calls(last, "read")) <= 1

\* C9 (amended): a successful invocation of create_bucket, delete_bucket,
\* upload_blob, delete_blob, rename_blob, copy_blob or set_bucket_cors makes
\* exactly one mutating backend call, the tool's own; a successful download_blob
\* makes exactly one backend call, download_to_filename, which mutates nothing
\* in the backend; an invocation of a non-mutating tool makes no mutating call,
\* leaves the backend as it was, and makes at most one backend read,
\* generate_signed_url following its read with at most one call of the signer.
C9_CallsPerTool ==
  Pending =>
    /\ (last.op \in Mutating \ {"download_blob"} /\ Succeeded(last)) =>
         /\ Cardinality(Calls(last, "write")) = 1
         /\ \A i \in Calls(last, "write") : last.calls[i].call = OpCall(last.op)
         /\ Calls(last, "transfer") = {}
    /\ (last.op = "download_blob" /\ Succeeded(last)) =>
         /\ Len(last.calls) = 1
         /\ last.calls[1].call = OpCall(last.op)
         /\ last.calls[1].kind = "transfer"
         /\ BackendUnchanged
    /\ last.op \in NonMutating =>
         /\ Calls(last, "write") = {}
         /\ Calls(last, "transfer") = {}
         /\ BackendUnchanged
         /\ Cardinality(Calls(last, "read")) <= 1
         /\ Cardinality(Calls(last, "sign")) <= 1
         /\ \A i \in Calls(last, "sign") :
              last.op = "generate_signed_url" /\ Calls(last, "read") = {i - 1}

\* rename_blob returned its confirmation after a read and a mutation
C9_Witness ==
  /\ Pending
  /\ last.op = "rename_blob"
  /\ Succeeded(last)
  /\ last.args.blob # last.args.new_name
  /\ Len(last.calls) = 2
  /\ objects # pre.objects

\* C10: health_check returns the same fixed string in every backend state and
\* whatever the backend would answer, makes no backend call and leaves the
\* backend as it was.
C10_HealthCheckFixed ==
  (Pending /\ last.op = "health_check") =>
    /\ last.result = Str(<<Lit("(ok) Server is up and running!")>>)
    /\ last.calls = <<>>
    /\ last.exc = "none"
    /\ BackendUnchanged

\* health_check returned while the backend holds objects and fails every request
C10_Witness ==
  /\ Pending
  /\ last.op = "health_check"
  /\ last.inj.type = "Other"
  /\ objects # {}

\* C11: a bucket that a successful create_bucket put in the backend stays there,
\* with the location it was created in, until a delete_bucket of that name; and
\* get_bucket_metadata invoked for a bucket that is in the backend returns, when
\* the backend answers the request, a metadata map without an "error" key whose
\* "name" is the name that was created and whose "location" is the location it
\* was created in, and leaves the backend as it was.
C11_CreateThenGetRoundTrip ==
  [][ /\ (IsCreate /\ Succeeded(last') /\ SuccessMarked(last'.result.val)) =>
           /\ last'.args.bucket \in DOMAIN buckets'
           /\ buckets'[last'.args.bucket].location = last'.args.location
      /\ \A b \in DOMAIN buckets :
           (b \notin DOMAIN buckets' \/ buckets'[b].location # buckets[b].location) =>
             (last'.op = "delete_bucket" /\ last'.args.bucket = b)
      /\ \A b \in DOMAIN buckets' \ DOMAIN buckets :
           last'.op = "create_bucket" /\ last'.args.bucket = b
      /\ ( /\ last'.op = "get_bucket_metadata"
           /\ last'.args.bucket \in DOMAIN buckets
           /\ last'.inj = NoFault ) =>
           /\ last'.result.shape = "map"
           /\ "error" \notin DOMAIN last'.result.val
           /\ "name" \in DOMAIN last'.result.val
           /\ last'.result.val["name"] = <<Arg(last'.args.bucket)>>
           /\ last'.result.val["location"] = <<Arg(buckets[last'.args.bucket].location)>>
           /\ buckets' = buckets
           /\ objects' = objects
    ]_vars

\* get_bucket_metadata returned the metadata of a bucket created earlier in "EU"
C11_Witness ==
  /\ Pending
  /\ last.op = "get_bucket_metadata"
  /\ last.inj = NoFault
  /\ last.args.bucket \in DOMAIN pre.buckets
  /\ pre.buckets[last.args.bucket].location = "EU"
  /\ last.result.shape = "map"
  /\ last.result.val["name"] = <<Arg(last.args.bucket)>>

\* the invocation being returned is a rename_blob or copy_blob whose
\* blob.exists() answered True and whose source object was gone from the
\* backend when its next call was made
SourceLostAfterCheck ==
  /\ Pending
  /\ last.op \in {"rename_blob", "copy_blob"}
  /\ Len(last.calls) = 2
  /\ last.calls[1].out = "True"
  /\ ~Exists(pre, last.args.bucket, last.args.blob)

\* C12: with invocations interleaved, the existence check of rename_blob and
\* copy_blob is a step of its own before the call that follows it; when a
\* delete_blob removes the source object between the two, the invocation
\* returns a string (nothing is raised) that carries an error marker and no
\* success marker, the backend is left as the call found it, so the destination
\* object is not created, and no rename_blob or copy_blob adds an object to the
\* backend unless its source was there when the call was made.
C12_LostSourceReturnsError ==
  /\ SourceLostAfterCheck =>
       /\ last.result.shape = "str"
       /\ ~SuccessMarked(last.result.val)
       /\ Generic(last.result.val) \/ NotFoundMarked(last.result.val)
       /\ BackendUnchanged
  /\ (Pending /\ last.op \in {"rename_blob", "copy_blob"} /\ ~(objects \subseteq pre.objects)) =>
       /\ Exists(pre, last.args.bucket, last.args.blob)
       /\ SuccessMarked(last.result.val)

\* rename_blob returned after a delete_blob removed its source object between
\* its existence check and bucket.rename_blob(), the backend answering
C12_Witness ==
  /\ SourceLostAfterCheck
  /\ last.op = "rename_blob"
  /\ last.inj = NoFault
  /\ last.exc = "NotFound"
  /\ last.args.new_name # last.args.blob
  /\ <<last.args.bucket, last.args.new_name>> \notin objects

====
